---- MODULE Spec2Model ----
(***************************************************************************)
(* rtree (src/main.rs): a directory tree printer.  main builds the list    *)
(* of exclusion patterns (the -i option and the root's .gitignore) and     *)
(* calls list_contents on the root; list_contents reads, sorts, filters    *)
(* and prints the entries of a directory and recurses into the             *)
(* subdirectories.                                                         *)
(*                                                                         *)
(* Text (names, paths, patterns, lines of .gitignore) is a sequence of     *)
(* one-character strings.  The recursion of list_contents is a stack of    *)
(* frames, one per active call.                                            *)
(***************************************************************************)
EXTENDS Integers, Sequences, FiniteSets, TLC

VARIABLES opt, fs, pc, ignore_patterns, stack, output, stats, reads

vars == <<opt, fs, pc, ignore_patterns, stack, output, stats, reads>>

(***************************************************************************)
(* Bounds of the model.                                                    *)
(***************************************************************************)
\* largest value of --max-depth that is tried
MaxDepthLimit == 3

(***************************************************************************)
(* Text.                                                                   *)
(***************************************************************************)
\* The characters of the model in ascending byte order.  "0xFF" stands for
\* a byte that is not valid UTF-8, "U+FFFD" for the replacement character.
ByteOrder ==
    << " ", "#", "*", ".", "/", "?", "[", "a", "b", "c", "e", "g", "i", "l",
       "n", "o", "r", "s", "t", "x", "|", "U+FFFD", "0xFF" >>

Ord(c) == CHOOSE i \in 1..Len(ByteOrder) : ByteOrder[i] = c

RECURSIVE LexLess(_, _)
LexLess(a, b) ==
    IF a = <<>> THEN b # <<>>
    ELSE IF b = <<>> THEN FALSE
    ELSE IF Head(a) = Head(b) THEN LexLess(Tail(a), Tail(b))
    ELSE Ord(Head(a)) < Ord(Head(b))

StartsWith(s, c) == s # <<>> /\ Head(s) = c

IsWhitespace(c) == c = " "

RECURSIVE TrimStart(_)
TrimStart(s) ==
    IF s # <<>> /\ IsWhitespace(Head(s)) THEN TrimStart(Tail(s)) ELSE s

RECURSIVE TrimEnd(_)
TrimEnd(s) ==
    IF s # <<>> /\ IsWhitespace(s[Len(s)])
    THEN TrimEnd(SubSeq(s, 1, Len(s) - 1)) ELSE s

Trim(s) == TrimEnd(TrimStart(s))

RECURSIVE TrimStartMatches(_, _)
TrimStartMatches(s, c) ==
    IF StartsWith(s, c) THEN TrimStartMatches(Tail(s), c) ELSE s

\* str::split: the pieces between the separators, empty pieces included
RECURSIVE SplitAcc(_, _, _)
SplitAcc(s, c, cur) ==
    IF s = <<>> THEN <<cur>>
    ELSE IF Head(s) = c THEN <<cur>> \o SplitAcc(Tail(s), c, <<>>)
    ELSE SplitAcc(Tail(s), c, Append(cur, Head(s)))

Split(s, c) == SplitAcc(s, c, <<>>)

(***************************************************************************)
(* Paths.                                                                  *)
(***************************************************************************)
\* Path::join with a relative second component
PathJoin(base, rel) ==
    IF base = <<>> THEN rel
    ELSE IF base[Len(base)] = "/" THEN base \o rel
    ELSE base \o <<"/">> \o rel

\* Path::to_str: None (FALSE here) when the path is not valid UTF-8
IsUtf8(p) == \A i \in 1..Len(p) : p[i] # "0xFF"

\* Path::to_string_lossy
ToStringLossy(p) == [i \in 1..Len(p) |-> IF p[i] = "0xFF" THEN "U+FFFD" ELSE p[i]]

(***************************************************************************)
(* glob::Pattern.  The patterns of the model have literal characters, '?'  *)
(* and single '*'; a '[' is never closed (there is no ']' among the        *)
(* characters), and Pattern::new rejects it.  matches() runs with the      *)
(* default MatchOptions, under which '*' and '?' also match '/' and a      *)
(* leading '.'.                                                            *)
(***************************************************************************)
PatternNewOk(p) == \A i \in 1..Len(p) : p[i] # "["

RECURSIVE Matches(_, _)
Matches(p, s) ==
    IF p = <<>> THEN s = <<>>
    ELSE IF Head(p) = "*"
         THEN Matches(Tail(p), s) \/ (s # <<>> /\ Matches(p, Tail(s)))
    ELSE /\ s # <<>>
         /\ (Head(p) = "?" \/ Head(p) = Head(s))
         /\ Matches(Tail(p), Tail(s))

\* iter.filter_map(|p| Pattern::new(p).ok())
RECURSIVE CompileAll(_)
CompileAll(ps) ==
    IF ps = <<>> THEN <<>>
    ELSE (IF PatternNewOk(Head(ps)) THEN <<Head(ps)>> ELSE <<>>)
         \o CompileAll(Tail(ps))

\* main: the patterns of the -i option
UserPatterns(ignore) ==
    IF ignore = <<>> THEN <<>> ELSE CompileAll(Split(ignore[1], "|"))

(***************************************************************************)
(* load_gitignore_patterns.                                                *)
(***************************************************************************)
GitignoreName == <<".", "g", "i", "t", "i", "g", "n", "o", "r", "e">>

\* the filter closure: keeps a line unless it is blank or starts with '#'
LineKept(line) == Trim(line) # <<>> /\ ~StartsWith(line, "#")

\* the pattern text a kept line is compiled from
LinePatternText(path, line) ==
    LET trimmed_line == Trim(line)
    IN  IF StartsWith(trimmed_line, "/")
        THEN PathJoin(path, TrimStartMatches(trimmed_line, "/"))
        ELSE trimmed_line

\* to_str().unwrap() on the joined path of a line that starts with '/'
LinePanics(path, line) ==
    /\ LineKept(line)
    /\ StartsWith(Trim(line), "/")
    /\ ~IsUtf8(path)

RECURSIVE LinesToPatterns(_, _)
LinesToPatterns(path, lines) ==
    IF lines = <<>> THEN <<>>
    ELSE (IF LineKept(Head(lines)) /\ PatternNewOk(LinePatternText(path, Head(lines)))
          THEN <<LinePatternText(path, Head(lines))>> ELSE <<>>)
         \o LinesToPatterns(path, Tail(lines))

\* the outcome of load_gitignore_patterns: "none" (None), "some", "panic",
\* or "hang" (lines() of a directory yields Err forever, and
\* filter_map(Result::ok) never ends)
GitignoreOutcome(path, gi) ==
    IF gi.kind = "absent" THEN "none"
    ELSE IF gi.kind = "unopenable" THEN "none"
    ELSE IF gi.kind = "dir" THEN "hang"
    ELSE IF \E i \in 1..Len(gi.lines) : LinePanics(path, gi.lines[i]) THEN "panic"
    ELSE "some"

load_gitignore_patterns(path, gi) ==
    IF GitignoreOutcome(path, gi) = "some" THEN LinesToPatterns(path, gi.lines)
    ELSE <<>>

\* main: the outcome of the pattern loading
MainOutcome(o, f) ==
    IF o.no_gitignore THEN "some"
    ELSE IF GitignoreOutcome(o.path, f.gitignore) \in {"panic", "hang"}
         THEN GitignoreOutcome(o.path, f.gitignore)
    ELSE "some"

MainPatterns(o, f) ==
    UserPatterns(o.ignore)
    \o (IF o.no_gitignore THEN <<>> ELSE load_gitignore_patterns(o.path, f.gitignore))

(***************************************************************************)
(* The file system.  A node is [path, kind, to_dir]: path is the sequence  *)
(* of names below the root, kind is what symlink_metadata reports, to_dir  *)
(* tells whether following the entry leads to a directory.                 *)
(***************************************************************************)
Node(p, k, d) == [path |-> p, kind |-> k, to_dir |-> d]

BaseName(p) == p[Len(p)]

Parent(p) == SubSeq(p, 1, Len(p) - 1)

NodeAt(f, p) == CHOOSE n \in f.nodes : n.path = p

Exists(f, p) == \E n \in f.nodes : n.path = p

ChildNames(f, p) == {BaseName(n.path) : n \in {m \in f.nodes : m.path # <<>> /\ Parent(m.path) = p}}

\* fs::read_dir succeeds
ReadDirOk(f, p) ==
    /\ p \notin f.unreadable
    /\ (p = <<>> \/ (Exists(f, p) /\ NodeAt(f, p).to_dir))

\* fs::symlink_metadata succeeds
MetadataOk(f, p) == p \notin f.badMeta

\* the text printed after "->" for a symbolic link
LinkTarget(f, p) == IF f.badLink THEN "unreadable" ELSE "target"

(***************************************************************************)
(* list_contents.                                                          *)
(***************************************************************************)
ZeroStats == [directories |-> 0, files |-> 0]

\* the depth guard with > in place of >=
DepthGuardOffByOne(prefixes, max_depth) ==
    max_depth # <<>> /\ Len(prefixes) > max_depth[1]

\* the depth guard: Some(max_depth) and prefixes.len() >= max_depth
DepthGuard(prefixes, max_depth) ==
    max_depth # <<>> /\ Len(prefixes) >= max_depth[1]

\* entries.sort_by_key(|e| e.file_name())
RECURSIVE SortEntries(_)
SortEntries(names) ==
    IF names = {} THEN <<>>
    ELSE LET m == CHOOSE x \in names : \A y \in names \ {x} : LexLess(x, y)
         IN  <<m>> \o SortEntries(names \ {m})

\* every pattern tested against the full path string
PatternExcludesFullPath(pattern, path_str, file_name) ==
    Matches(pattern, path_str)

\* one pattern against one entry
PatternExcludes(pattern, path_str, file_name) ==
    IF StartsWith(pattern, "/")
    THEN Matches(pattern, path_str)
    ELSE Matches(pattern, file_name)

\* the filter closure without the hidden-file test
EntryKeptPatternsOnly(o, patterns, dir, file_name) ==
    LET path == PathJoin(dir, file_name)
    IN  ~\E k \in 1..Len(patterns) :
            PatternExcludes(patterns[k], ToStringLossy(path), file_name)

\* the filter closure: TRUE when the entry stays
EntryKept(o, patterns, dir, file_name) ==
    LET path == PathJoin(dir, file_name)
    IN  /\ ~(~o.show_hidden /\ StartsWith(file_name, "."))
        /\ ~\E k \in 1..Len(patterns) :
                PatternExcludes(patterns[k], ToStringLossy(path), file_name)

FilterEntries(o, patterns, dir, entries) ==
    SelectSeq(entries, LAMBDA e : EntryKept(o, patterns, dir, e))

\* the if/else chain with the directory test put first
ClassifyDirectoryFirst(n) ==
    IF n.to_dir THEN "directory"
    ELSE IF n.kind = "symlink" THEN "symlink"
    ELSE IF n.kind = "exec" THEN "executable"
    ELSE "regular"

\* the classes of the if/else chain
Classify(n) ==
    IF n.kind = "symlink" THEN "symlink"
    ELSE IF n.to_dir THEN "directory"
    ELSE IF n.kind = "exec" THEN "executable"
    ELSE "regular"

\* the segments of the line prefix; "|   " stands for the vertical-bar
\* segment (U+2502 and three spaces)
RECURSIVE PrefixSegments(_)
PrefixSegments(prefixes) ==
    IF prefixes = <<>> THEN <<>>
    ELSE <<IF Head(prefixes) THEN "    " ELSE "|   ">> \o PrefixSegments(Tail(prefixes))

\* "\\-- " stands for the last connector (U+2514 U+2500 U+2500 and a space),
\* "|-- " for the branch connector (U+251C U+2500 U+2500 and a space)
Connector(is_last) == IF is_last THEN "\\-- " ELSE "|-- "

\* the push of a constant in place of is_last
NewPrefixesNeverLast(prefixes, is_last) == Append(prefixes, FALSE)

\* new_prefixes = prefixes.clone(); new_prefixes.push(is_last)
NewPrefixes(prefixes, is_last) == Append(prefixes, is_last)

\* the merge without the files of the subdirectory
MergeStatsDirectoriesOnly(s, sub) ==
    [directories |-> s.directories + sub.directories,
     files |-> s.files]

\* stats.directories += sub_stats.directories; stats.files += sub_stats.files
MergeStats(s, sub) ==
    [directories |-> s.directories + sub.directories,
     files |-> s.files + sub.files]

Frame(dir, node, prefixes) ==
    [dir |-> dir, node |-> node, prefixes |-> prefixes, entries |-> <<>>,
     i |-> 1, stats |-> ZeroStats, phase |-> "call"]

Top == stack[Len(stack)]

SetTop(fr) == [stack EXCEPT ![Len(stack)] = fr]

InLoop == pc = "walk" /\ Top.phase = "loop" /\ Top.i <= Len(Top.entries)

CurName == Top.entries[Top.i]

CurPath == Append(Top.node, CurName)

IsLast == Top.i = Len(Top.entries)

Line(class, target) ==
    [node |-> CurPath, name |-> CurName, segs |-> PrefixSegments(Top.prefixes),
     conn |-> Connector(IsLast), class |-> class, target |-> target]

(***************************************************************************)
(* The inputs: the command line and the directory tree.                    *)
(***************************************************************************)
RootPaths == { <<"/", "r">>, <<"r">>, <<"/", "0xFF">> }

IgnoreOptions ==
    { <<>>,
      << <<"*", ".", "l">> >>,
      << <<".", "e", "|", "[">> >>,
      << <<"s", "|", "*", ".", "l">> >>,
      << <<"/", "r", "/", "a", "/", "s">> >> }

GitignoreFiles ==
    { [kind |-> "absent", lines |-> <<>>],
      [kind |-> "unopenable", lines |-> <<>>],
      [kind |-> "dir", lines |-> <<>>],
      [kind |-> "file", lines |-> << <<"/", "s">> >>],
      [kind |-> "file", lines |-> << <<"/", "*", ".", "l">>, <<>> >>],
      [kind |-> "file", lines |-> << <<" ", "#", "c">>, <<" ">>, <<"*", ".", "l">> >>],
      [kind |-> "file", lines |-> << <<"#", "c">>, <<" ", "b", " ">>, <<"[">> >>] }

N_e == <<".", "e">>
N_a == <<"a">>
N_b == <<"b">>
N_c == <<"c">>
N_l == <<"l">>
N_s == <<"s">>
N_xl == <<"x", ".", "l">>

TreeNodes ==
    { Node(<<N_e>>, "dir", TRUE),
      Node(<<N_e, N_s>>, "file", FALSE),
      Node(<<N_a>>, "dir", TRUE),
      Node(<<N_a, N_b>>, "dir", TRUE),
      Node(<<N_a, N_b, N_c>>, "exec", FALSE),
      Node(<<N_a, N_s>>, "file", FALSE),
      Node(<<N_a, N_xl>>, "file", FALSE),
      Node(<<N_l>>, "symlink", TRUE),
      Node(<<N_l, N_c>>, "file", FALSE),
      Node(<<N_s>>, "file", FALSE),
      Node(<<N_xl>>, "file", FALSE) }

GitignoreNodes(gi) ==
    IF gi.kind = "absent" THEN {}
    ELSE IF gi.kind = "dir" THEN {Node(<<GitignoreName>>, "dir", TRUE)}
    ELSE {Node(<<GitignoreName>>, "file", FALSE)}

\* the failures of the file system: entries whose metadata cannot be read,
\* directories that cannot be read, link targets that cannot be read
Failures ==
    { [badMeta |-> {}, unreadable |-> {}, badLink |-> FALSE],
      [badMeta |-> {<<N_xl>>}, unreadable |-> {}, badLink |-> TRUE],
      [badMeta |-> {<<N_a, N_xl>>, <<N_s>>}, unreadable |-> {}, badLink |-> FALSE],
      [badMeta |-> {<<N_l>>}, unreadable |-> {<<N_a, N_b>>}, badLink |-> FALSE],
      [badMeta |-> {}, unreadable |-> {<<N_a>>}, badLink |-> TRUE] }

Options ==
    [path : RootPaths,
     max_depth : {<<>>} \cup {<<n>> : n \in 0..MaxDepthLimit},
     show_hidden : BOOLEAN,
     ignore : IgnoreOptions,
     no_gitignore : BOOLEAN]

FileSystems ==
    { [nodes |-> TreeNodes \cup GitignoreNodes(gi), gitignore |-> gi,
       badMeta |-> x.badMeta, unreadable |-> x.unreadable, badLink |-> x.badLink] :
         gi \in GitignoreFiles, x \in Failures }

Init ==
    /\ opt \in Options
    /\ fs \in FileSystems
    /\ pc = "main"
    /\ ignore_patterns = <<>>
    /\ stack = <<>>
    /\ output = <<>>
    /\ stats = ZeroStats
    /\ reads = {}

(***************************************************************************)
(* main, up to the call of list_contents.                                  *)
(***************************************************************************)
MainStart ==
    /\ pc = "main"
    /\ MainOutcome(opt, fs) = "some"
    /\ ignore_patterns' = MainPatterns(opt, fs)
    /\ stack' = <<Frame(opt.path, <<>>, <<>>)>>
    /\ pc' = "walk"
    /\ UNCHANGED <<opt, fs, output, stats, reads>>

\* absolute_pattern.to_str().unwrap() on a path that is not UTF-8
MainPanic ==
    /\ pc = "main"
    /\ MainOutcome(opt, fs) = "panic"
    /\ pc' = "panic"
    /\ UNCHANGED <<opt, fs, ignore_patterns, stack, output, stats, reads>>

\* reader.lines().filter_map(Result::ok) on a .gitignore that is a directory
MainHang ==
    /\ pc = "main"
    /\ MainOutcome(opt, fs) = "hang"
    /\ pc' = "hang"
    /\ UNCHANGED <<opt, fs, ignore_patterns, stack, output, stats, reads>>

(***************************************************************************)
(* list_contents, one step at a time.                                      *)
(***************************************************************************)
DepthGuardReturn ==
    /\ pc = "walk" /\ Top.phase = "call"
    /\ DepthGuard(Top.prefixes, opt.max_depth)
    /\ stack' = SetTop([Top EXCEPT !.phase = "ret"])
    /\ UNCHANGED <<opt, fs, pc, ignore_patterns, output, stats, reads>>

ReadDirFail ==
    /\ pc = "walk" /\ Top.phase = "call"
    /\ ~DepthGuard(Top.prefixes, opt.max_depth)
    /\ ~ReadDirOk(fs, Top.node)
    /\ stack' = SetTop([Top EXCEPT !.phase = "ret"])
    /\ reads' = reads \cup {Top.node}
    /\ UNCHANGED <<opt, fs, pc, ignore_patterns, output, stats>>

ReadDir ==
    /\ pc = "walk" /\ Top.phase = "call"
    /\ ~DepthGuard(Top.prefixes, opt.max_depth)
    /\ ReadDirOk(fs, Top.node)
    /\ stack' = SetTop([Top EXCEPT
            !.entries = FilterEntries(opt, ignore_patterns, Top.dir,
                                      SortEntries(ChildNames(fs, Top.node))),
            !.i = 1,
            !.phase = "loop"])
    /\ reads' = reads \cup {Top.node}
    /\ UNCHANGED <<opt, fs, pc, ignore_patterns, output, stats>>

\* Err(_) => continue
SkipEntry ==
    /\ InLoop
    /\ ~MetadataOk(fs, CurPath)
    /\ stack' = SetTop([Top EXCEPT !.i = @ + 1])
    /\ UNCHANGED <<opt, fs, pc, ignore_patterns, output, stats, reads>>

\* a symbolic link: one line, one file, no recursion
RenderSymlink ==
    /\ InLoop
    /\ MetadataOk(fs, CurPath)
    /\ Classify(NodeAt(fs, CurPath)) = "symlink"
    /\ output' = Append(output, Line("symlink", LinkTarget(fs, CurPath)))
    /\ stack' = SetTop([Top EXCEPT !.i = @ + 1, !.stats.files = @ + 1])
    /\ UNCHANGED <<opt, fs, pc, ignore_patterns, stats, reads>>

RenderExecutable ==
    /\ InLoop
    /\ MetadataOk(fs, CurPath)
    /\ Classify(NodeAt(fs, CurPath)) = "executable"
    /\ output' = Append(output, Line("executable", ""))
    /\ stack' = SetTop([Top EXCEPT !.i = @ + 1, !.stats.files = @ + 1])
    /\ UNCHANGED <<opt, fs, pc, ignore_patterns, stats, reads>>

RenderRegular ==
    /\ InLoop
    /\ MetadataOk(fs, CurPath)
    /\ Classify(NodeAt(fs, CurPath)) = "regular"
    /\ output' = Append(output, Line("regular", ""))
    /\ stack' = SetTop([Top EXCEPT !.i = @ + 1, !.stats.files = @ + 1])
    /\ UNCHANGED <<opt, fs, pc, ignore_patterns, stats, reads>>

\* prints the directory, counts it and calls list_contents on it
RenderDirectory ==
    /\ InLoop
    /\ MetadataOk(fs, CurPath)
    /\ Classify(NodeAt(fs, CurPath)) = "directory"
    /\ output' = Append(output, Line("directory", ""))
    /\ stack' = Append(SetTop([Top EXCEPT !.stats.directories = @ + 1]),
                       Frame(PathJoin(Top.dir, CurName), CurPath,
                             NewPrefixes(Top.prefixes, IsLast)))
    /\ UNCHANGED <<opt, fs, pc, ignore_patterns, stats, reads>>

Returning ==
    /\ pc = "walk"
    /\ (Top.phase = "ret" \/ (Top.phase = "loop" /\ Top.i > Len(Top.entries)))

\* a recursive call returns: the caller merges the sub-stats and goes on
ReturnToCaller ==
    /\ Returning
    /\ Len(stack) > 1
    /\ LET caller == stack[Len(stack) - 1]
       IN  stack' = [SubSeq(stack, 1, Len(stack) - 1) EXCEPT ![Len(stack) - 1] =
                        [caller EXCEPT !.stats = MergeStats(caller.stats, Top.stats),
                                       !.i = @ + 1]]
    /\ UNCHANGED <<opt, fs, pc, ignore_patterns, output, stats, reads>>

\* the call of main returns: main prints the summary
PrintSummary ==
    /\ Returning
    /\ Len(stack) = 1
    /\ stats' = Top.stats
    /\ stack' = <<>>
    /\ pc' = "done"
    /\ UNCHANGED <<opt, fs, ignore_patterns, output, reads>>

Next ==
    \/ MainStart
    \/ MainPanic
    \/ MainHang
    \/ DepthGuardReturn
    \/ ReadDirFail
    \/ ReadDir
    \/ SkipEntry
    \/ RenderSymlink
    \/ RenderDirectory
    \/ RenderExecutable
    \/ RenderRegular
    \/ ReturnToCaller
    \/ PrintSummary

Spec == Init /\ [][Next]_vars

(***************************************************************************)
(* Vocabulary of the properties.                                           *)
(***************************************************************************)
Rendered(p) == \E i \in DOMAIN output : output[i].node = p

LinesOf(p) == {i \in DOMAIN output : output[i].node = p}

ChildLines(d) == {i \in DOMAIN output : Parent(output[i].node) = d}

\* some line lies strictly below p
RenderedBelow(p) ==
    \E i \in DOMAIN output :
        /\ Len(output[i].node) > Len(p)
        /\ SubSeq(output[i].node, 1, Len(p)) = p

\* read_dir was called on d and returned the entries
Listed(d) == d \in reads /\ ReadDirOk(fs, d)

\* the path string of the node at p
RECURSIVE PathOf(_)
PathOf(p) == IF p = <<>> THEN opt.path ELSE PathJoin(PathOf(Parent(p)), BaseName(p))

HiddenName(name) == StartsWith(name, ".")

CountLines(classes) == Cardinality({i \in DOMAIN output : output[i].class \in classes})

LeafClasses == {"symlink", "executable", "regular"}

RECURSIVE SumDirectories(_)
SumDirectories(st) ==
    IF st = <<>> THEN 0 ELSE Head(st).stats.directories + SumDirectories(Tail(st))

RECURSIVE SumFiles(_)
SumFiles(st) ==
    IF st = <<>> THEN 0 ELSE Head(st).stats.files + SumFiles(Tail(st))

GitignoreRead == ~opt.no_gitignore /\ fs.gitignore.kind = "file"

\* C1: in every directory with at least one rendered child line, the last
\* rendered child line carries the last connector and every other rendered
\* child line the branch connector, whatever entries are hidden, excluded
\* or have unreadable metadata.
C1_LastRenderedChildHasLastConnector ==
    pc = "done" =>
        \A d \in reads :
            \A i \in ChildLines(d) :
                output[i].conn = Connector(\A j \in ChildLines(d) : j <= i)

\* C2: a .gitignore line that starts with '/' excludes the root-level
\* entries its remainder names, for every root path, and no entry of a
\* subdirectory.
C2_RootAnchoredLineExcludesRootLevelOnly ==
    (pc = "done" /\ GitignoreRead) =>
        \A k \in 1..Len(fs.gitignore.lines) :
            LET t == Trim(fs.gitignore.lines[k])
                rem == TrimStartMatches(t, "/")
                own == LinePatternText(opt.path, fs.gitignore.lines[k])
                others == SelectSeq(ignore_patterns, LAMBDA q : q # own)
            IN  StartsWith(t, "/") =>
                    \A n \in fs.nodes :
                        /\ (Len(n.path) = 1 /\ Matches(rem, n.path[1]))
                              => ~Rendered(n.path)
                        /\ (/\ Len(n.path) > 1
                            /\ Listed(Parent(n.path))
                            /\ MetadataOk(fs, n.path)
                            /\ EntryKept(opt, others, PathOf(Parent(n.path)), BaseName(n.path)))
                              => Rendered(n.path)

\* C3: with max_depth = N no directory at N or more levels below the root
\* is read and no entry more than N levels below the root is rendered or
\* counted; N = 0 renders nothing and reports 0 directories, 0 files; a
\* directory at level N is rendered once and nothing of its contents is.
C3_DepthLimit ==
    opt.max_depth # <<>> =>
        LET N == opt.max_depth[1]
        IN  /\ \A d \in reads : Len(d) < N
            /\ \A i \in DOMAIN output :
                  /\ Len(output[i].node) <= N
                  /\ Len(output[i].node) = N =>
                        /\ Cardinality(LinesOf(output[i].node)) = 1
                        /\ ~RenderedBelow(output[i].node)
                        /\ output[i].node \notin reads
            /\ pc = "done" =>
                  /\ stats.directories + stats.files =
                        Cardinality({i \in DOMAIN output : Len(output[i].node) <= N})
                  /\ N = 0 => (output = <<>> /\ stats = ZeroStats)

C3_Witness ==
    /\ pc = "done"
    /\ opt.max_depth = <<1>>
    /\ Rendered(<<N_a>>)
    /\ Exists(fs, <<N_a, N_b>>)
    /\ ~Rendered(<<N_a, N_b>>)
    /\ stats.directories >= 1

\* C4: the counters agree with the printed lines: the directories counted
\* are the rendered directory lines and the files counted are the rendered
\* lines of the other classes, during the walk (summed over the active
\* calls) and in the Stats the top-level call returns.
C4_CountersMatchLines ==
    /\ pc = "walk" =>
          /\ SumDirectories(stack) = CountLines({"directory"})
          /\ SumFiles(stack) = CountLines(LeafClasses)
    /\ pc = "done" =>
          /\ stats.directories = CountLines({"directory"})
          /\ stats.files = CountLines(LeafClasses)
          /\ stats.directories + stats.files = Len(output)

C4_Witness ==
    /\ pc = "done"
    /\ stats.directories >= 3
    /\ stats.files >= 5
    /\ CountLines({"symlink"}) = 1
    /\ CountLines({"executable"}) = 1
    /\ \E p \in fs.badMeta : Listed(Parent(p))

\* C5: no input drives the program to a panic or another process-level
\* failure; the walk reaches the summary, and every entry that is listed,
\* passes the filter and has readable metadata is rendered, whatever
\* failed next to it.
C5_NoProcessLevelFailure ==
    /\ pc \notin {"panic", "hang"}
    /\ pc = "done" =>
          \A n \in fs.nodes :
              (/\ n.path # <<>>
               /\ Listed(Parent(n.path))
               /\ MetadataOk(fs, n.path)
               /\ EntryKept(opt, ignore_patterns, PathOf(Parent(n.path)), BaseName(n.path)))
                 => Rendered(n.path)

\* some pattern in effect matches the entry at p
PatternMatched(p) ==
    \E k \in 1..Len(ignore_patterns) :
        PatternExcludes(ignore_patterns[k], ToStringLossy(PathOf(p)), BaseName(p))

HiddenNodes == {n \in fs.nodes : n.path # <<>> /\ HiddenName(BaseName(n.path))}

\* C6 as stated: a dot-entry is absent when show_hidden is false and
\* present when show_hidden is true, whatever the patterns in effect.
C6_HiddenPresentWheneverShown ==
    pc = "done" =>
        \A n \in HiddenNodes :
            (Listed(Parent(n.path)) /\ MetadataOk(fs, n.path)) =>
                (Rendered(n.path) <=> opt.show_hidden)

\* C6 amended: a dot-entry is never rendered when show_hidden is false,
\* whatever the patterns in effect, and nothing below a suppressed hidden
\* directory is rendered or read; when show_hidden is true the dot alone
\* suppresses nothing: a listed dot-entry with readable metadata is
\* rendered exactly when no pattern in effect matches it.
C6_HiddenSuppression ==
    \A n \in HiddenNodes :
        /\ ~opt.show_hidden =>
              /\ ~Rendered(n.path)
              /\ ~RenderedBelow(n.path)
              /\ n.path \notin reads
        /\ (pc = "done" /\ opt.show_hidden /\ Listed(Parent(n.path)) /\ MetadataOk(fs, n.path)) =>
              (Rendered(n.path) <=> ~PatternMatched(n.path))

C6_Witness ==
    /\ pc = "done"
    /\ opt.show_hidden
    /\ Listed(<<>>)
    /\ PatternMatched(<<N_e>>)
    /\ ~Rendered(<<N_e>>)
    /\ Rendered(<<GitignoreName>>)

\* the name-anchored patterns: the compiled pieces of the -i option and the
\* compiled .gitignore lines whose trimmed text does not begin with '/'
NameAnchoredPatterns ==
    {ignore_patterns[k] : k \in {j \in 1..Len(UserPatterns(opt.ignore)) :
                                    ~StartsWith(ignore_patterns[j], "/")}}
    \cup (IF GitignoreRead
          THEN {Trim(fs.gitignore.lines[k]) :
                   k \in {j \in 1..Len(fs.gitignore.lines) :
                            /\ LineKept(fs.gitignore.lines[j])
                            /\ ~StartsWith(Trim(fs.gitignore.lines[j]), "/")
                            /\ PatternNewOk(Trim(fs.gitignore.lines[j]))}}
          ELSE {})

NameMatched(name) == \E q \in NameAnchoredPatterns : Matches(q, name)

\* the entry at p is matched by a pattern that is not name-anchored
OtherPatternMatched(p) ==
    \E k \in 1..Len(ignore_patterns) :
        /\ ignore_patterns[k] \notin NameAnchoredPatterns
        /\ PatternExcludes(ignore_patterns[k], ToStringLossy(PathOf(p)), BaseName(p))

\* C7: a name-anchored pattern is tested against the base name only, at
\* every depth: a listed entry whose base name matches one is not rendered,
\* not read and has nothing rendered below it, and a listed entry whose
\* base name matches none is rendered unless the hidden filter, another
\* pattern or a metadata failure removes it, whatever its ancestors are
\* called.
C7_NameAnchoredAtEveryDepth ==
    \A n \in fs.nodes :
        (n.path # <<>> /\ Listed(Parent(n.path))) =>
            /\ NameMatched(BaseName(n.path)) =>
                  /\ ~Rendered(n.path)
                  /\ ~RenderedBelow(n.path)
                  /\ n.path \notin reads
            /\ (/\ pc = "done"
                /\ ~NameMatched(BaseName(n.path))
                /\ ~(~opt.show_hidden /\ HiddenName(BaseName(n.path)))
                /\ ~OtherPatternMatched(n.path)
                /\ MetadataOk(fs, n.path))
                  => Rendered(n.path)

C7_Witness ==
    /\ pc = "done"
    /\ <<"*", ".", "l">> \in NameAnchoredPatterns
    /\ <<"s">> \in NameAnchoredPatterns
    /\ Listed(<<N_a>>)
    /\ Rendered(<<N_a, N_b, N_c>>)
    /\ ~Rendered(<<N_a, N_xl>>)
    /\ ~Rendered(<<N_a, N_s>>)
    /\ MetadataOk(fs, <<N_a, N_xl>>)

\* the siblings that pass the filter, in the order of the walk
VisibleEntries(d) ==
    FilterEntries(opt, ignore_patterns, PathOf(d), SortEntries(ChildNames(fs, d)))

SymlinkNodes == {n \in fs.nodes : n.kind = "symlink"}

\* C8: a symbolic link is never recursed into: its path is never read,
\* nothing below it is rendered, it has at most one line, of class symbolic
\* link, with the connector of its position among the visible siblings;
\* the step that prints it counts one file and no directory and opens no
\* call.
C8_SymlinkNeverRecursed ==
    /\ [](\A n \in SymlinkNodes :
            /\ n.path \notin reads
            /\ ~RenderedBelow(n.path)
            /\ Cardinality(LinesOf(n.path)) <= 1
            /\ \A i \in LinesOf(n.path) :
                  /\ output[i].class = "symlink"
                  /\ output[i].conn =
                        Connector(BaseName(n.path) =
                                    VisibleEntries(Parent(n.path))[Len(VisibleEntries(Parent(n.path)))]))
    /\ [][\A n \in SymlinkNodes :
            (LinesOf(n.path) = {} /\ LinesOf(n.path)' # {}) =>
                /\ Len(stack') = Len(stack)
                /\ SumFiles(stack') = SumFiles(stack) + 1
                /\ SumDirectories(stack') = SumDirectories(stack)]_vars

C8_Witness ==
    /\ pc = "done"
    /\ \E i \in DOMAIN output :
          /\ output[i].node = <<N_l>>
          /\ output[i].conn = Connector(TRUE)
    /\ Exists(fs, <<N_l, N_c>>)
    /\ stats.files >= 1

\* the line of the directory at p
LineOf(p) == output[CHOOSE i \in DOMAIN output : output[i].node = p]

\* the directory at p was printed with the last connector
WasLast(p) == LineOf(p).conn = Connector(TRUE)

\* C10: a line at depth k has exactly k ancestor segments before its
\* connector, the i-th blank if the i-th ancestor was the last sibling at
\* its level and a vertical bar otherwise; the prefix sequence of a call
\* has the length of its depth and is the caller's sequence extended by
\* the is_last of the directory entered, for as long as the call is active.
C10_PrefixFollowsAncestors ==
    /\ \A i \in DOMAIN output :
          /\ Len(output[i].segs) = Len(output[i].node) - 1
          /\ \A k \in 1..Len(output[i].segs) :
                /\ Rendered(SubSeq(output[i].node, 1, k))
                /\ output[i].segs[k] =
                      (IF WasLast(SubSeq(output[i].node, 1, k)) THEN "    " ELSE "|   ")
    /\ \A j \in 1..Len(stack) :
          /\ Len(stack[j].prefixes) = j - 1
          /\ Len(stack[j].node) = j - 1
          /\ j > 1 =>
                /\ Rendered(stack[j].node)
                /\ stack[j].prefixes =
                      Append(stack[j - 1].prefixes, WasLast(stack[j].node))

C10_Witness ==
    /\ pc = "done"
    /\ \E i \in DOMAIN output :
          /\ output[i].node = <<N_a, N_b, N_c>>
          /\ output[i].segs = <<"|   ", "    ">>
    /\ \E i \in DOMAIN output :
          /\ output[i].node = <<N_e, N_s>>
          /\ output[i].segs = <<"|   ">>

\* the patterns the .gitignore lines contribute when each line is trimmed
\* before the comment test
RECURSIVE TrimmedFirstPatterns(_, _)
TrimmedFirstPatterns(path, lines) ==
    IF lines = <<>> THEN <<>>
    ELSE LET t == Trim(Head(lines))
         IN  (IF t # <<>> /\ ~StartsWith(t, "#") /\ PatternNewOk(LinePatternText(path, t))
              THEN <<LinePatternText(path, t)>> ELSE <<>>)
             \o TrimmedFirstPatterns(path, Tail(lines))

\* C9: a line is trimmed and then skipped if the trimmed text is empty or
\* starts with '#': comment and blank lines contribute no pattern, every
\* other line that compiles contributes the pattern of its trimmed text.
C9_TrimThenSkipComments ==
    (pc \in {"walk", "done"} /\ GitignoreRead) =>
        ignore_patterns =
            UserPatterns(opt.ignore) \o TrimmedFirstPatterns(opt.path, fs.gitignore.lines)

====
